---- MODULE Spec2Model ----
(***************************************************************************)
(* A model of src/bio.py: the matrix-rain terminal animation with a typed  *)
(* bio overlay.  Time is counted in ticks of 10 ms.  Characters are        *)
(* one-character strings and a line of text is a sequence of them.         *)
(***************************************************************************)
EXTENDS Integers, Sequences, FiniteSets, TLC

VARIABLES
    pc,        \* position of the program: "init", "columns", "poll",
               \* "typing", "static", "done"
    args,      \* the parsed command line: autoplay, repeat, lines, delays
    term,      \* the terminal's current size [h, w] (what getmaxyx returns)
    keys,      \* key presses pending in the terminal's input queue
    columns,   \* main's list of MatrixColumn objects
    typed,     \* main's flag: the bio has been typed at least once
    do_type,   \* main's flag: typing is requested
    pass,      \* the typing pass in progress: its size snapshot and row
    frame,     \* what the current frame attempted to write, pass by pass
    exitCode,  \* the process's exit status, NoExit while it runs
    obs        \* observer: history the properties are stated over

vars == <<pc, args, term, keys, columns, typed, do_type, pass, frame,
          exitCode, obs>>

----------------------------------------------------------------------------
(* Bounds of the model *)

\* key presses that may wait unread in the input queue
MaxPending == 2
\* columns the density sampling may create
MaxCols == 1
\* longest window (in ticks) the advance-counting observer measures
MaxWindow == 30

(* Program constants, in ticks of 10 ms where they are times *)

\* time.sleep(0.03), the frame interval
FrameSleep == 3
\* time.sleep(0.25), the pause after each typed line
LinePause == 25
\* the first row the overlay block may start at: max(2, ...)
MinStartRow == 2
\* the 10 spare characters of a column's buffer
CharSlack == 10

\* values random.uniform(0.05, 0.4) is sampled from
Speeds == {5, 7}

\* what getch returns: -1 when nothing is pending
NoKey == "none"
Keys == {"q", "Q", " ", "x"}

NoExit == -1
\* the statuses an uncaught KeyboardInterrupt ends the interpreter with
\* (1 before Python 3.8, 130 = killed by SIGINT since)
UncaughtInterruptCodes == {1, 130}

Max(a, b) == IF a >= b THEN a ELSE b
Min(a, b) == IF a <= b THEN a ELSE b

RECURSIVE SumSeq(_)
SumSeq(s) == IF s = <<>> THEN 0 ELSE Head(s) + SumSeq(Tail(s))

RECURSIVE Flatten(_)
Flatten(ss) == IF ss = <<>> THEN <<>> ELSE Head(ss) \o Flatten(Tail(ss))

----------------------------------------------------------------------------
(* class MatrixColumn *)

\* mutant: the head may start a whole screen above the top
HeadRangeFullScreen(H) == (-H) .. 0

\* random.randint(-self.height // 2, 0)
HeadRange(H) == ((-H) \div 2) .. 0

\* random.randint(4, max(6, self.height // 6))
LengthRange(H) == 4 .. Max(6, H \div 6)

\* mutant: the slack may be as large as twice the height
SlackRangeDouble(H) == 0 .. 2 * H

\* random.randint(0, self.height), the slack of the off-screen test
SlackRange(H) == 0 .. H

\* the values one reset() draws
ResetSamples(H) ==
    [y : HeadRange(H), speed : Speeds, length : LengthRange(H)]

\* reset(): `since` is time.time() - last_step, kept up to `speed` (the only
\* use of last_step is the test  now - last_step >= speed);  `nchars` is
\* len(self.chars), whose contents are random and never compared
Reset(col, s) ==
    [col EXCEPT !.y = s.y, !.speed = s.speed, !.length = s.length,
                !.since = 0, !.nchars = col.height + s.length + CharSlack]

\* __init__(x, height)
NewColumn(x, H, s) ==
    Reset([x |-> x, height |-> H, y |-> 0, speed |-> 0, length |-> 0,
           since |-> 0, nchars |-> 0], s)

\* mutant: the elapsed time must exceed the speed
StepDueStrict(col) == col.since > col.speed

\* the test of step(): now - self.last_step >= self.speed
StepDue(col) == col.since >= col.speed

\* the off-screen test of step()
OffScreen(col, slack) == col.y - col.length > col.height + slack

\* mutant: the head is not moved
AdvanceInPlace(col) == [col EXCEPT !.since = 0]

\* the first branch of step(): self.y += 1; self.last_step = now
Advance(col) == [col EXCEPT !.y = @ + 1, !.since = 0]

\* step() with the values its random calls return: the column afterwards,
\* whether the head advanced and whether reset() was called
Step(col, slack, s) ==
    IF StepDue(col)
    THEN IF OffScreen(Advance(col), slack)
         THEN [col |-> Reset(Advance(col), s), advanced |-> TRUE,
               reset |-> TRUE]
         ELSE [col |-> Advance(col), advanced |-> TRUE, reset |-> FALSE]
    ELSE [col |-> col, advanced |-> FALSE, reset |-> FALSE]

\* a member of every ResetSamples(H), passed where reset() is not called
UnusedSample == [y |-> 0, speed |-> CHOOSE v \in Speeds : TRUE, length |-> 4]

\* every outcome of one step() call: reset()'s values are drawn only when
\* reset() is called
StepOutcomes(col) ==
    UNION { IF StepDue(col) /\ OffScreen(Advance(col), slack)
            THEN { Step(col, slack, s) : s \in ResetSamples(col.height) }
            ELSE { Step(col, slack, UnusedSample) } :
            slack \in SlackRange(col.height) }

\* the index get_positions reads self.chars at
CharIndex(col, i) == (col.y + i) % col.nchars

\* mutant: the row just below the column's height passes the test
VisibleInclusive(col, pos) == 0 <= pos /\ pos <= col.height

\* the range test of get_positions
Visible(col, pos) == 0 <= pos /\ pos < col.height

\* get_positions(): (pos, char, is_head) for i in range(self.length); the
\* character is given by its index in the buffer
RECURSIVE PositionsFrom(_, _)
PositionsFrom(col, i) ==
    IF i >= col.length THEN <<>>
    ELSE LET pos == col.y - i
             rest == PositionsFrom(col, i + 1)
         IN  IF Visible(col, pos)
             THEN <<[pos |-> pos, char |-> CharIndex(col, i),
                     is_head |-> (i = 0)]>> \o rest
             ELSE rest

GetPositions(col) == PositionsFrom(col, 0)

\* time passing for a column: d ticks more since its last advance
Age(col, d) == [col EXCEPT !.since = Min(@ + d, col.speed)]


----------------------------------------------------------------------------
(* Text placement and the curses window *)

\* mutant: the start column is not clamped at 0
center_x_unclamped(screen_width, text) ==
    (screen_width - Len(text)) \div 2

\* center_x_for_text(screen_width, text)
center_x_for_text(screen_width, text) ==
    Max(0, (screen_width - Len(text)) \div 2)

\* start_y = max(2, (height - block_height) // 2)
StartRow(height, lines) == Max(MinStartRow, (height - Len(lines)) \div 2)

\* line.split(" "): the words between single spaces, empty ones included
RECURSIVE SplitFrom(_, _)
SplitFrom(line, cur) ==
    IF line = <<>> THEN <<cur>>
    ELSE IF Head(line) = " " THEN <<cur>> \o SplitFrom(Tail(line), <<>>)
    ELSE SplitFrom(Tail(line), Append(cur, Head(line)))

\* mutant: line.split(), which drops the empty words
SplitNoEmpty(line) == SelectSeq(SplitFrom(line, <<>>), LAMBDA w : w # <<>>)

Split(line) == SplitFrom(line, <<>>)

\* stdscr.addch(y, x, ...) on a window of size sz: the cell is written when
\* it is inside the window; curses.error is raised when it is outside, and
\* also after the write to the lower-right corner (the cursor cannot advance)
Addch(sz, y, x) ==
    LET inside == 0 <= y /\ y < sz.h /\ 0 <= x /\ x < sz.w
    IN  [written |-> inside,
         error   |-> ~inside \/ (y = sz.h - 1 /\ x = sz.w - 1)]

\* mutant: addch without the try, its curses.error leaves the pass
AddchUncaught(sz, y, x) ==
    [written |-> Addch(sz, y, x).written, raised |-> Addch(sz, y, x).error]

\* try: stdscr.addch(...)  except curses.error: pass
TryAddch(sz, y, x) ==
    [written |-> Addch(sz, y, x).written, raised |-> FALSE]

\* one attempted cell write and what became of it; nth tells which next()
\* call of the frame on the shared color cycle chose its color pair (0 when
\* the write takes no color from the cycle), bold whether A_BOLD is set
Write(sz, y, x, c, nth, bold) ==
    LET r == TryAddch(sz, y, x)
    IN  [y |-> y, x |-> x, ch |-> c, nth |-> nth, bold |-> bold,
         written |-> r.written, raised |-> r.raised]

\* the writes of a pass up to and including the first one whose exception
\* leaves the pass
RECURSIVE Attempted(_)
Attempted(ws) ==
    IF ws = <<>> THEN <<>>
    ELSE IF Head(ws).raised THEN <<Head(ws)>>
    ELSE <<Head(ws)>> \o Attempted(Tail(ws))

Raised(ws) == ws # <<>> /\ ws[Len(ws)].raised

\* mutant: every character of a word takes its own next color
RECURSIVE TypeWordsPerGlyph(_, _, _, _, _)
TypeWordsPerGlyph(sz, words, y, x, nexts) ==
    IF words = <<>> THEN [writes |-> <<>>, nexts |-> nexts]
    ELSE LET word == Head(words)
             cw   == [i \in 1 .. Len(word) |->
                        Write(sz, y, x + i - 1, word[i], nexts + i, TRUE)]
             sp   == Write(sz, y, x + Len(word), " ", 0, FALSE)
             rest == TypeWordsPerGlyph(sz, Tail(words), y, x + Len(word) + 1,
                                       nexts + Len(word))
         IN  [writes |-> cw \o <<sp>> \o rest.writes, nexts |-> rest.nexts]

\* the inner loops of type_bio_overlay over the words of one line: each word
\* takes the next color of the cycle (nexts were taken before), its
\* characters are written in bold from x on, then a space with no attribute
RECURSIVE TypeWords(_, _, _, _, _)
TypeWords(sz, words, y, x, nexts) ==
    IF words = <<>> THEN [writes |-> <<>>, nexts |-> nexts]
    ELSE LET word == Head(words)
             cw   == [i \in 1 .. Len(word) |->
                        Write(sz, y, x + i - 1, word[i], nexts + 1, TRUE)]
             sp   == Write(sz, y, x + Len(word), " ", 0, FALSE)
             rest == TypeWords(sz, Tail(words), y, x + Len(word) + 1,
                               nexts + 1)
         IN  [writes |-> cw \o <<sp>> \o rest.writes, nexts |-> rest.nexts]

\* mutant: every typed line starts at the left edge
TypeLineFromLeft(sz, height, width, lines, row_idx, nexts) ==
    TypeWords(sz, Split(lines[row_idx + 1]),
              StartRow(height, lines) + row_idx, 0, nexts)

\* one iteration of type_bio_overlay's loop over the lines; (height, width)
\* is the size read when the pass began, sz the window's size now
TypeLine(sz, height, width, lines, row_idx, nexts) ==
    LET line == lines[row_idx + 1]
    IN  TypeWords(sz, Split(line), StartRow(height, lines) + row_idx,
                  center_x_for_text(width, line), nexts)

\* the time one typed line sleeps: char_delay after each character,
\* word_delay after each word, and the pause after the line
LineSleep(line, word_delay, char_delay) ==
    LET words == Split(line)
    IN  SumSeq([i \in 1 .. Len(words) |-> Len(words[i])]) * char_delay
        + Len(words) * word_delay + LinePause

\* the static overlay of one line: each character takes the next color
StaticLine(sz, line, y, x, nexts) ==
    [i \in 1 .. Len(line) |->
        Write(sz, y, x + i - 1, line[i], nexts + i, FALSE)]

\* mutant: the static overlay is rendered only once the bio has been typed
RECURSIVE StaticFromWhenTyped(_, _, _, _)
StaticFromWhenTyped(sz, lines, row_idx, nexts) ==
    IF ~typed \/ row_idx >= Len(lines) THEN [writes |-> <<>>, nexts |-> nexts]
    ELSE LET line == lines[row_idx + 1]
             ws   == StaticLine(sz, line, StartRow(sz.h, lines) + row_idx,
                                center_x_for_text(sz.w, line), nexts)
             rest == StaticFromWhenTyped(sz, lines, row_idx + 1,
                                         nexts + Len(line))
         IN  [writes |-> ws \o rest.writes, nexts |-> rest.nexts]

\* the static overlay pass of main over the lines from row_idx on
RECURSIVE StaticFrom(_, _, _, _)
StaticFrom(sz, lines, row_idx, nexts) ==
    IF row_idx >= Len(lines) THEN [writes |-> <<>>, nexts |-> nexts]
    ELSE LET line == lines[row_idx + 1]
             ws   == StaticLine(sz, line, StartRow(sz.h, lines) + row_idx,
                                center_x_for_text(sz.w, line), nexts)
             rest == StaticFrom(sz, lines, row_idx + 1, nexts + Len(line))
         IN  [writes |-> ws \o rest.writes, nexts |-> rest.nexts]

\* draw_matrix: one addch per visible cell of every column, in list order,
\* the head in bold
RainWrites(sz, cols) ==
    Flatten([k \in 1 .. Len(cols) |->
        LET ps == GetPositions(cols[k])
        IN  [j \in 1 .. Len(ps) |->
                Write(sz, ps[j].pos, cols[k].x, ps[j].char, 0,
                      ps[j].is_head)]])

----------------------------------------------------------------------------
(* The observer: history variables, written by the actions and read only  *)
(* by the properties                                                      *)

WindowOff == [on |-> FALSE, k |-> 0, n |-> 0, adv |-> 0]

Obs0 ==
    [spaceRead     |-> FALSE,   \* a space key has been read by getch
     typeRuns      |-> 0,       \* typing passes begun, counted up to 2
     typedThisIter |-> FALSE,   \* a typing pass began in this iteration
     iter          |-> 0,       \* loop iterations begun, counted up to 2
     quitRead      |-> FALSE,   \* getch has returned 'q' or 'Q'
     interrupted   |-> FALSE,   \* Ctrl-C has been delivered
     qAhead        |-> -1,      \* keys pending ahead of the first quit key
                                \* when it was pressed, -1 before that
     started       |-> FALSE,   \* this iteration polled after that press
     lateFrames    |-> 0,       \* frames begun after it that were completed
     fresh         |-> {},      \* columns created or reset by the last step
     slept         |-> 0,       \* ticks the typing pass has slept so far
     win           |-> WindowOff]  \* a window of time on one column and the
                                   \* head advances counted in it

\* the window after d ticks have passed: closed beyond MaxWindow
WinElapse(w, d) ==
    IF w.on /\ w.n + d <= MaxWindow THEN [w EXCEPT !.n = @ + d]
    ELSE WindowOff

\* the window after a step of the columns: closed by a reset of its column
WinStep(w, outs) ==
    IF ~w.on THEN w
    ELSE IF outs[w.k].reset THEN WindowOff
    ELSE IF outs[w.k].advanced THEN [w EXCEPT !.adv = @ + 1]
    ELSE w

----------------------------------------------------------------------------
(* The program: the entry point and main() *)

\* no window size read yet
NoSize == [h |-> 0, w |-> 0]

\* a frame before anything was done for it: the writes each pass attempted,
\* the next() calls made on the color cycle, the work done, in order, and
\* the window size the typing pass and the static pass read from getmaxyx
EmptyFrame ==
    [rain |-> <<>>, typed |-> <<>>, static |-> <<>>, nexts |-> 0,
     work |-> <<>>, typedAt |-> NoSize, staticAt |-> NoSize]

\* the work of an iteration before the overlay decision (bio.py:221-234)
HeadWork == <<"poll", "step", "erase", "draw">>
\* the work of an iteration after the typing overlay (bio.py:244-260)
TailWork == <<"static", "refresh", "sleep">>
NoPass == [row_idx |-> 0, height |-> 0, width |-> 0]

\* the state in which main() is entered, for a set of terminal sizes and a
\* set of command lines
InitWith(sizes, argset) ==
    /\ pc = "init"
    /\ args \in argset
    /\ term \in sizes
    /\ keys = <<>>
    /\ columns = <<>>
    /\ typed = FALSE
    /\ do_type = FALSE
    /\ pass = NoPass
    /\ frame = EmptyFrame
    /\ exitCode = NoExit
    /\ obs = Obs0

\* range(start, stop, step) for a positive step, as a list
RECURSIVE Range(_, _, _)
Range(start, stop, step) ==
    IF start >= stop THEN <<>>
    ELSE <<start>> \o Range(start + step, stop, step)

\* the sets of x for which random.random() < 0.12 can hold in one start-up
Sampled(width) ==
    { S \in SUBSET (0 .. width - 1) : Cardinality(S) <= MaxCols }

\* for x in range(0, width): if random.random() < 0.12: append a column at x
Picked(S, width) == SelectSeq(Range(0, width, 1), LAMBDA x : x \in S)

\* for x in range(0, width, max(1, width // 40)): append a column at x
Fallback(width) == Range(0, width, Max(1, width \div 40))

\* mutant: the fallback columns are appended whether or not any was sampled
ColumnXsBoth(S, width) == Picked(S, width) \o Fallback(width)

\* the x positions of the columns main creates, in list order, when the
\* density test held for the x in S: the fallback runs if not columns
ColumnXs(S, width) ==
    IF Picked(S, width) = <<>> THEN Fallback(width) ELSE Picked(S, width)

\* mutant: the upper-case key is not tested
IsQuitLowerOnly(k) == k = "q"

\* ch in (ord('q'), ord('Q'))
IsQuit(k) == k \in {"q", "Q"}

\* mutant: any key that does not quit triggers typing
IsTriggerAnyKey(k) == k \in {" ", "x"}

\* ch == ord(' ')
IsTrigger(k) == k = " "

\* mutant: typing runs only while the bio has not been typed
ShouldTypeOnce(d, t, repeat_bio) == d /\ ~t

\* do_type and (not typed or repeat_bio)
ShouldType(d, t, repeat_bio) == d /\ (~t \/ repeat_bio)

\* mutant: the request is always cleared after a pass
AfterTypingCleared(repeat_bio) == FALSE

\* do_type = False if not repeat_bio else True
AfterTyping(repeat_bio) == IF ~repeat_bio THEN FALSE ELSE TRUE

\* the program positions inside main's try block (the loop)
InTry(p) == p \in {"poll", "typing", "static"}

\* a curses.error leaving main reaches the handler of the entry point:
\* the message is printed and sys.exit(1) is called
Propagate(raised, next) ==
    IF raised THEN pc' = "done" /\ exitCode' = 1
    ELSE pc' = next /\ exitCode' = exitCode

\* the process is over: curses.wrapper has ended the window and the objects
\* of main (its columns, the frame it drew, the pass) are gone
Gone(running, empty) == IF pc' = "done" THEN empty ELSE running

\* main, up to init_colors(): curs_set, nodelay, timeout, color pairs
InitDisplay ==
    /\ pc = "init"
    /\ pc' = "columns"
    /\ UNCHANGED <<args, term, keys, columns, typed, do_type, pass,
                   frame, exitCode, obs>>

\* main, from getmaxyx() to the try: the columns, the cycle, the flags
CreateColumns ==
    /\ pc = "columns"
    /\ \E S \in Sampled(term.w) :
         LET xs == ColumnXs(S, term.w)
         IN  \E smp \in [1 .. Len(xs) -> ResetSamples(term.h)] :
               columns' = [k \in 1 .. Len(xs) |->
                              NewColumn(xs[k], term.h, smp[k])]
    /\ typed' = FALSE
    /\ do_type' = args.autoplay
    /\ pc' = "poll"
    /\ obs' = [obs EXCEPT !.fresh = DOMAIN columns']
    /\ UNCHANGED <<args, term, keys, pass, frame, exitCode>>

\* the outcomes of  for col in columns: col.step()
RECURSIVE AllOutcomes(_)
AllOutcomes(cols) ==
    IF cols = <<>> THEN {<<>>}
    ELSE { <<o>> \o rest : o \in StepOutcomes(Head(cols)),
                           rest \in AllOutcomes(Tail(cols)) }

\* do_type after the input handling of an iteration whose getch returned k
Requested(k, d) == IF IsTrigger(k) THEN TRUE ELSE d

\* an iteration of the loop up to the overlay: getch() and the two key tests
\* (k is ch, which nothing else reads), col.step() for every column, erase()
\* and draw_matrix(), the test that decides to type and the entry of
\* type_bio_overlay, which reads the window size once
BeginFrame ==
    /\ pc = "poll"
    /\ LET k == IF keys = <<>> THEN NoKey ELSE Head(keys)
       IN  /\ keys' = IF keys = <<>> THEN keys ELSE Tail(keys)
           /\ do_type' = IF IsQuit(k) THEN do_type ELSE Requested(k, do_type)
           /\ IF IsQuit(k)
              THEN /\ pc' = "done"
                   /\ exitCode' = 0
                   /\ columns' = <<>>
                   /\ frame' = EmptyFrame
                   /\ pass' = NoPass
                   /\ obs' = [obs EXCEPT !.quitRead = k \in {"q", "Q"},
                                         !.iter = Min(@ + 1, 2),
                                         !.fresh = {}]
              ELSE \E outs \in AllOutcomes(columns) :
                     LET cols == [j \in DOMAIN columns |-> outs[j].col]
                         ws   == Attempted(RainWrites(term, cols))
                         type == ShouldType(do_type', typed, args.repeat)
                     IN  /\ columns' = cols
                         /\ frame' = [EmptyFrame EXCEPT
                               !.rain = ws,
                               !.work = HeadWork,
                               !.typedAt = IF type /\ ~Raised(ws)
                                           THEN term ELSE NoSize]
                         /\ Propagate(Raised(ws),
                                      IF type THEN "typing" ELSE "static")
                         /\ pass' = IF type /\ ~Raised(ws)
                                    THEN [row_idx |-> 0, height |-> term.h,
                                          width |-> term.w]
                                    ELSE pass
                         /\ obs' = [obs EXCEPT
                               !.spaceRead = @ \/ k = " ",
                               !.quitRead = k \in {"q", "Q"},
                               !.iter = Min(@ + 1, 2),
                               !.started = obs.qAhead # -1,
                               !.fresh = {j \in DOMAIN columns : outs[j].reset},
                               !.win = WinStep(@, outs),
                               !.typedThisIter = type,
                               !.typeRuns = IF type THEN Min(@ + 1, 2) ELSE @,
                               !.slept = IF type THEN 0 ELSE @]
    /\ UNCHANGED <<args, term, typed>>

\* one line of type_bio_overlay: its words, its sleeps; after the last line
\* the pass returns and main sets its two flags
TypeLineStep ==
    /\ pc = "typing"
    /\ LET line == args.lines[pass.row_idx + 1]
           r    == TypeLine(term, pass.height, pass.width, args.lines,
                            pass.row_idx, frame.nexts)
           ws   == Attempted(r.writes)
           d    == LineSleep(line, args.word_delay, args.char_delay)
           last == pass.row_idx + 1 = Len(args.lines)
       IN  /\ frame' = [frame EXCEPT
                 !.typed = @ \o ws, !.nexts = r.nexts,
                 !.work = IF pass.row_idx = 0 THEN Append(@, "type") ELSE @]
           /\ columns' = [k \in DOMAIN columns |-> Age(columns[k], d)]
           /\ obs' = [obs EXCEPT !.slept = @ + d, !.win = WinElapse(@, d),
                                 !.fresh = {}]
           /\ pass' = IF last THEN NoPass ELSE [pass EXCEPT !.row_idx = @ + 1]
           /\ typed' = IF last /\ ~Raised(ws) THEN TRUE ELSE typed
           /\ do_type' = IF last /\ ~Raised(ws)
                         THEN AfterTyping(args.repeat) ELSE do_type
           /\ Propagate(Raised(ws), IF last THEN "static" ELSE "typing")
    /\ UNCHANGED <<args, term, keys>>

\* the static overlay pass, refresh() and the frame's sleep
StaticSleep ==
    /\ pc = "static"
    /\ LET r  == StaticFrom(term, args.lines, 0, frame.nexts)
           ws == Attempted(r.writes)
       IN  /\ frame' = [frame EXCEPT !.static = ws, !.nexts = r.nexts,
                                      !.work = @ \o TailWork,
                                      !.staticAt = term]
           /\ Propagate(Raised(ws), "poll")
    /\ columns' = [k \in DOMAIN columns |-> Age(columns[k], FrameSleep)]
    /\ obs' = [obs EXCEPT
          !.lateFrames = IF obs.started THEN Min(@ + 1, MaxPending + 1) ELSE @,
          !.started = FALSE,
          !.fresh = {},
          !.win = WinElapse(@, FrameSleep)]
    /\ UNCHANGED <<args, term, keys, typed, do_type, pass>>

ProgramStep ==
    \/ InitDisplay
    \/ CreateColumns
    \/ BeginFrame
    \/ TypeLineStep
    \/ StaticSleep

----------------------------------------------------------------------------
(* The environment *)

\* the user presses a key: it waits in the input queue until getch reads it
KeyPress ==
    /\ pc # "done"
    /\ Len(keys) < MaxPending
    /\ \E k \in Keys :
         /\ keys' = Append(keys, k)
         /\ obs' = [obs EXCEPT !.qAhead =
                IF k \in {"q", "Q"} /\ obs.qAhead = -1 THEN Len(keys) ELSE @]
    /\ UNCHANGED <<pc, args, term, columns, typed, do_type, pass, frame,
                   exitCode>>

\* Ctrl-C: KeyboardInterrupt is raised where the program is; inside the try
\* of main it is caught and main returns, elsewhere it leaves the program
Interrupt ==
    /\ pc # "done"
    /\ pc' = "done"
    /\ IF InTry(pc) THEN exitCode' = 0
       ELSE exitCode' \in UncaughtInterruptCodes
    /\ obs' = [obs EXCEPT !.interrupted = TRUE]
    /\ columns' = <<>>
    /\ frame' = EmptyFrame
    /\ pass' = NoPass
    /\ UNCHANGED <<args, term, keys, typed, do_type>>

\* the terminal is resized to another of the sizes; curses takes the new
\* size into the window in getch() and in refresh(), which the typing pass
\* calls after every character
Resize(sizes) ==
    /\ pc # "done"
    /\ term' \in sizes \ {term}
    /\ UNCHANGED <<pc, args, keys, columns, typed, do_type, pass, frame,
                   exitCode, obs>>

\* the observer opens a window on a column
StartWindow ==
    /\ pc \in {"poll", "typing", "static"}
    /\ ~obs.win.on
    /\ \E k \in DOMAIN columns :
         obs' = [obs EXCEPT !.win = [on |-> TRUE, k |-> k, n |-> 0, adv |-> 0]]
    /\ UNCHANGED <<pc, args, term, keys, columns, typed, do_type, pass,
                   frame, exitCode>>

----------------------------------------------------------------------------
(* The specifications *)

AB == <<"A", "B">>
CD == <<"C", "D">>

\* the animation loop alone, from its first iteration on
LoopStep ==
    \/ BeginFrame
    \/ TypeLineStep
    \/ StaticSleep

\* Spec: the whole program with its keyboard and Ctrl-C, on a terminal of
\* one column
MainSizes == {[h |-> 1, w |-> 1]}
MainArgs ==
    [autoplay : BOOLEAN, repeat : BOOLEAN, lines : {<<AB, CD>>},
     word_delay : {0}, char_delay : {0}]

Init == InitWith(MainSizes, MainArgs)

Next ==
    \/ ProgramStep
    \/ KeyPress
    \/ Interrupt

Spec == Init /\ [][Next]_vars

\* SpecColumn: the program left to run, on terminals of one column and of
\* odd, even, small and large heights
Heights == (1 .. 5) \cup {42, 43}
ColumnSizes == {[h |-> H, w |-> 1] : H \in Heights}
ColumnArgs ==
    [autoplay : BOOLEAN, repeat : {FALSE}, lines : {<<AB, CD>>},
     word_delay : {0}, char_delay : {0}]

InitColumn == InitWith(ColumnSizes, ColumnArgs)

SpecColumn == InitColumn /\ [][ProgramStep]_vars

\* SpecRunning: the program left to run on small terminals, for as long as
\* it keeps running: the loop is sequential code with bounded sleeps, so
\* its next step is always taken
RunningSizes == {[h |-> H, w |-> 1] : H \in 1 .. 3}

InitRunning == InitWith(RunningSizes, ColumnArgs)

SpecRunning == InitRunning /\ [][ProgramStep]_vars /\ WF_vars(ProgramStep)

\* SpecScreen: the program left to run while the terminal is resized
ScreenSizes == {[h |-> 4, w |-> 1], [h |-> 3, w |-> 1]}
ScreenArgs ==
    [autoplay : {TRUE}, repeat : BOOLEAN, lines : {<<AB, CD>>},
     word_delay : {0}, char_delay : {0}]

InitScreen == InitWith(ScreenSizes, ScreenArgs)

NextScreen ==
    \/ ProgramStep
    \/ Resize(ScreenSizes)

SpecScreen == InitScreen /\ [][NextScreen]_vars

\* SpecWindow: the program left to run on small terminals, with windows of
\* time observed on its column
WindowSizes == {[h |-> 1, w |-> 1], [h |-> 2, w |-> 1]}

InitWindow == InitWith(WindowSizes, ColumnArgs)

NextWindow ==
    \/ ProgramStep
    \/ StartWindow

SpecWindow == InitWindow /\ [][NextWindow]_vars

\* SpecText: the animation loop with no column, entered with typing
\* requested, for a range of window sizes, texts and delays
MaxTextWidth == 7
A_B == <<"A", " ", " ", "B">>
ABCDE == <<"A", "B", "C", "D", "E">>
TextSizes == {[h |-> H, w |-> W] : H \in {4, 7}, W \in 1 .. MaxTextWidth}
TextArgs ==
    [autoplay : {TRUE}, repeat : BOOLEAN,
     lines : {<<AB, CD>>, <<A_B>>, <<ABCDE, <<>>, AB>>},
     word_delay : {0, 28}, char_delay : {0, 2}]

InitText ==
    /\ pc = "poll"
    /\ args \in TextArgs
    /\ term \in TextSizes
    /\ keys = <<>>
    /\ columns = <<>>
    /\ typed = FALSE
    /\ do_type = args.autoplay
    /\ pass = NoPass
    /\ frame = EmptyFrame
    /\ exitCode = NoExit
    /\ obs = Obs0

SpecText == InitText /\ [][LoopStep]_vars

\* SpecResize: the same loop while the terminal is resized between a small
\* and a large window, at any moment of a frame
ResizeSizes == {[h |-> 4, w |-> 3], [h |-> 8, w |-> 7]}
ResizeArgs ==
    [autoplay : {TRUE}, repeat : BOOLEAN,
     lines : {<<AB, CD>>, <<A_B>>, <<ABCDE, <<>>, AB>>},
     word_delay : {0}, char_delay : {0}]

InitResize ==
    /\ pc = "poll"
    /\ args \in ResizeArgs
    /\ term \in ResizeSizes
    /\ keys = <<>>
    /\ columns = <<>>
    /\ typed = FALSE
    /\ do_type = args.autoplay
    /\ pass = NoPass
    /\ frame = EmptyFrame
    /\ exitCode = NoExit
    /\ obs = Obs0

NextResize ==
    \/ LoopStep
    \/ Resize(ResizeSizes)

SpecResize == InitResize /\ [][NextResize]_vars

\* SpecRain: the program left to run on terminals one and two columns wide,
\* with every column the start-up can create
RainSizes == {[h |-> 1, w |-> W] : W \in 1 .. 2}
RainArgs ==
    [autoplay : {TRUE}, repeat : {FALSE}, lines : {<<AB>>},
     word_delay : {0}, char_delay : {0}]

InitRain == InitWith(RainSizes, RainArgs)

SpecRain == InitRain /\ [][ProgramStep]_vars

-----
(* Properties of the animation loop, checked under Spec *)

InLoop == pc \in {"poll", "typing", "static"}
PastDecision == pc \in {"typing", "static"}

\* the columns have been stepped and drawn and no time has passed since
AfterStep ==
    \/ pc = "typing" /\ pass.row_idx = 0
    \/ pc = "static" /\ ~obs.typedThisIter
Triggered == args.autoplay \/ obs.spaceRead

\* C1 as stated: once a quit key has been pressed, no frame that begins
\* after the press is completed, whatever other keys are pending.
C1_NoFrameAfterQuitPress == obs.lateFrames = 0

\* C1 as amended: getch reads one key per iteration, so a quit key pressed
\* behind n pending keys is followed by at most n complete frames; the
\* iteration whose getch returns the quit key leaves the loop at once and
\* the process ends with exit code 0.
C1_QuitReadEndsLoop ==
    /\ obs.quitRead => pc = "done" /\ exitCode = 0
    /\ obs.qAhead # -1 => obs.lateFrames <= obs.qAhead
    /\ obs.qAhead = -1 => obs.lateFrames = 0

C1_Witness ==
    /\ obs.quitRead
    /\ obs.qAhead = 1
    /\ obs.lateFrames = 1
    /\ pc = "done"

\* C2: in repeat mode, once typing has been triggered, typing stays queued
\* and a typing pass runs in every iteration that reaches the decision; in
\* one-shot mode the typing pass runs at most once in the whole run.
C2_RepeatAlwaysOneShotOnce ==
    /\ args.repeat /\ Triggered /\ InLoop => do_type
    /\ args.repeat /\ Triggered /\ PastDecision => obs.typedThisIter
    /\ ~args.repeat => obs.typeRuns <= 1

C2_Witness ==
    /\ ~args.repeat
    /\ typed
    /\ do_type
    /\ pc = "static"
    /\ ~obs.typedThisIter
    /\ obs.typeRuns = 1

\* C3: without autoplay no typing pass runs before a space key has been
\* read by getch; with autoplay the typing pass runs in the first iteration
\* that gets past the quit test, with no key read.
C3_TypingNeedsTrigger ==
    /\ ~args.autoplay /\ obs.typeRuns > 0 => obs.spaceRead
    /\ ~args.autoplay /\ ~obs.spaceRead /\ InLoop => ~do_type /\ ~typed
    /\ args.autoplay /\ obs.iter = 1 /\ PastDecision => obs.typedThisIter
    /\ args.autoplay /\ pc = "static" => typed

C3_Witness ==
    /\ args.autoplay
    /\ obs.iter = 1
    /\ pc = "static"
    /\ obs.typedThisIter
    /\ typed
    /\ ~obs.spaceRead

\* C4: a Ctrl-C delivered at any point after the display is initialised
\* ends the process with exit code 0.
C4_InterruptExitsZero == obs.interrupted => exitCode = 0

----------------------------------------------------------------------------
(* Properties of the rendering passes, checked under SpecScreen *)

\* the cells of a column's trail that lie in the rows of its height
TrailRows(col) ==
    {i \in 0 .. col.length - 1 : 0 <= col.y - i /\ col.y - i < col.height}

RECURSIVE SumOver(_, _)
SumOver(f, S) ==
    IF S = {} THEN 0
    ELSE LET a == CHOOSE a \in S : TRUE IN f[a] + SumOver(f, S \ {a})

TextLength == SumOver([r \in DOMAIN args.lines |-> Len(args.lines[r])],
                      DOMAIN args.lines)

Failed(ws) == \E j \in DOMAIN ws : ~ws[j].written

\* C5: no cell write that fails ends a pass or the loop: the rain pass
\* attempts every visible cell of every column, the typing pass every
\* character and every word's space of every line, the static pass every
\* character, and the loop's flags are what a pass without failure leaves.
C5_FailedWritesAreDiscarded ==
    /\ pc # "done" /\ exitCode = NoExit
    /\ AfterStep =>
          Len(frame.rain) =
             SumOver([k \in DOMAIN columns |-> Cardinality(TrailRows(columns[k]))],
                     DOMAIN columns)
    /\ pc = "static" /\ obs.typedThisIter =>
          /\ Len(frame.typed) = TextLength + Len(args.lines)
          /\ typed
          /\ do_type = args.repeat
    /\ pc = "poll" /\ obs.iter >= 1 => Len(frame.static) = TextLength

C5_Witness ==
    /\ pc = "poll"
    /\ obs.typedThisIter
    /\ Failed(frame.rain)
    /\ Failed(frame.typed)
    /\ Failed(frame.static)
    /\ \E j \in DOMAIN frame.rain : frame.rain[j].written
    /\ \E j \in DOMAIN frame.typed : frame.typed[j].written

----------------------------------------------------------------------------
(* Properties of MatrixColumn, checked under SpecColumn and SpecWindow *)

\* C6 as stated: after a column is created or reset its head lies in
\* [-H/2, 0] and its trail length in [4, max(6, H/6)], and the length stays
\* in that range.
C6_ResetRangesAsStated ==
    /\ \A k \in obs.fresh :
          /\ 2 * columns[k].y >= -columns[k].height
          /\ columns[k].y <= 0
    /\ \A k \in DOMAIN columns :
          /\ columns[k].length >= 4
          /\ columns[k].length <= 6 \/ 6 * columns[k].length <= columns[k].height

\* C6 as amended: the head lies in [floor(-H/2), 0], which is [-H/2, 0] for
\* even H and [-(H+1)/2, 0] for odd H; the length is as stated.
C6_ResetRanges ==
    /\ \A k \in obs.fresh :
          /\ 2 * columns[k].y >= -columns[k].height - 1
          /\ columns[k].height % 2 = 0 => 2 * columns[k].y >= -columns[k].height
          /\ columns[k].y <= 0
    /\ \A k \in DOMAIN columns :
          /\ columns[k].length >= 4
          /\ columns[k].length <= 6 \/ 6 * columns[k].length <= columns[k].height

C6_Witness ==
    /\ pc = "static"
    /\ \E k \in obs.fresh :
          /\ columns[k].height = 43
          /\ 2 * columns[k].y = -columns[k].height - 1
          /\ columns[k].length = 7

\* the head advances a window of n ticks on a column of this speed would
\* hold if the head advanced once every speed ticks
Quotient(w) == w.n \div columns[w.k].speed

\* C7 as stated (its second half): over a window of N ticks in which the
\* column is not reset, the number of head advances is within 1 of
\* floor(N / speed).
C7_AdvancesWithinOneOfQuotient ==
    obs.win.on =>
        /\ obs.win.adv <= Quotient(obs.win) + 1
        /\ obs.win.adv >= Quotient(obs.win) - 1

\* one call of step() on column c, leaving c1
StepContract(c, c1) ==
    IF c.since >= c.speed
    THEN \/ c1 = [c EXCEPT !.y = @ + 1, !.since = 0]
         \/ /\ c.y + 1 - c.length > c.height
            /\ c1.x = c.x /\ c1.height = c.height
            /\ c1.since = 0
            /\ c1.y <= 0
    ELSE c1 = c

\* C7 as amended: step() advances the head by exactly one cell when the time
\* since the last advance is at least the speed (and may then reset the
\* column) and changes nothing otherwise; over a window of N ticks in which
\* the column is not reset the number of advances is at most
\* floor(N / speed) + 1.
C7_StepContractAndUpperBound ==
    /\ [](obs.win.on => obs.win.adv <= Quotient(obs.win) + 1)
    /\ [][pc = "poll" /\ pc' \in {"typing", "static"} =>
             \A k \in DOMAIN columns : StepContract(columns[k], columns'[k])]_vars

C7_Witness ==
    /\ obs.win.on
    /\ obs.win.n > 0
    /\ obs.win.adv = Quotient(obs.win) + 1
    /\ obs.win.adv >= 2

\* C8: the cells draw_matrix gets from get_positions have rows in [0, H),
\* are one for each i in [0, L) with 0 <= y - i < H, in the order of i, are
\* marked as head exactly when i = 0, and take their character at an index
\* inside the buffer.
C8_VisibleCells ==
    AfterStep /\ Len(columns) = 1 =>
        LET c  == columns[1]
            ws == frame.rain
        IN  /\ \A j \in DOMAIN ws :
                  /\ 0 <= ws[j].y /\ ws[j].y < c.height
                  /\ c.y - ws[j].y \in TrailRows(c)
                  /\ ws[j].bold = (ws[j].y = c.y)
                  /\ 0 <= ws[j].ch /\ ws[j].ch < c.height + c.length + 10
                  /\ \A j2 \in DOMAIN ws : j < j2 => ws[j].y > ws[j2].y
            /\ Len(ws) = Cardinality(TrailRows(c))
            /\ {c.y - ws[j].y : j \in DOMAIN ws} = TrailRows(c)

C8_Witness ==
    /\ AfterStep
    /\ Len(columns) = 1
    /\ columns[1].y >= columns[1].height
    /\ Len(frame.rain) >= 2
    /\ Len(frame.rain) < columns[1].length
    /\ columns[1].height = 5

----------------------------------------------------------------------------
(* Properties of the overlay passes, checked under SpecText *)

\* the index in a pass over all lines of the first write of line r
Offset(r, extra) ==
    SumOver([q \in 1 .. r - 1 |-> Len(args.lines[q]) + extra], 1 .. r - 1)

\* C9: the start column of a line of length M on a screen of width W is
\* max(0, (W - M) // 2): never negative, and 0 when M > W.  Stated of the
\* columns the static pass and the typing pass write the lines at.
C9_StartColumn ==
    \A r \in DOMAIN args.lines :
        LET M == Len(args.lines[r])
            W == term.w
            c == IF M > W THEN 0 ELSE (W - M) \div 2
        IN  /\ pc = "poll" /\ obs.iter >= 1 =>
                \A i \in 1 .. M :
                    frame.static[Offset(r, 0) + i].x = c + i - 1
            /\ pc = "static" /\ obs.typedThisIter =>
                \A i \in 1 .. M + 1 :
                    frame.typed[Offset(r, 1) + i].x = c + i - 1

C9_Witness ==
    /\ pc = "poll"
    /\ obs.iter >= 1
    /\ args.lines = <<ABCDE, <<>>, AB>>
    /\ term.w = 4
    /\ frame.static[1].x = 0
    /\ frame.static[6].x = 1

Emitted == [j \in DOMAIN frame.typed |-> frame.typed[j].ch]
EachLineThenSpace ==
    Flatten([r \in DOMAIN args.lines |-> args.lines[r] \o <<" ">>])
PassDone == pc = "static" /\ obs.typedThisIter

\* C10 as stated (its last part): with word delay and character delay 0 a
\* full typing pass does not block.
C10_ZeroDelaysNoBlocking ==
    PassDone /\ args.word_delay = 0 /\ args.char_delay = 0 => obs.slept = 0

\* C10 as amended: a full typing pass emits, in line order and word order,
\* every character of every word and one space after each word, ends after
\* the last line, and sleeps char_delay per character, word_delay per word
\* and 0.25 s after every line: with both delays 0 it still blocks for
\* 0.25 s per line.
C10_TypingPassEmission ==
    /\ pc = "typing" => pass.row_idx < Len(args.lines)
    /\ PassDone =>
          /\ Emitted = EachLineThenSpace
          /\ \A j \in DOMAIN frame.typed :
                frame.typed[j].bold = (Emitted[j] # " ")
          /\ args.word_delay = 0 /\ args.char_delay = 0 =>
                obs.slept = LinePause * Len(args.lines)
          /\ obs.slept >= LinePause * Len(args.lines)
    /\ PassDone /\ args.lines = <<AB, CD>> =>
          Emitted = <<"A", "B", " ", "C", "D", " ">>

C10_Witness ==
    /\ PassDone
    /\ args.lines = <<AB, CD>>
    /\ args.word_delay = 0
    /\ args.char_delay = 0
    /\ Len(frame.typed) = 6
    /\ obs.slept = 50

\* the writes of a pass that carry the bold attribute (the typed glyphs)
Glyphs(ws) == {j \in DOMAIN ws : ws[j].bold}
\* the spaces a typing pass wrote before its j-th write: one ends each word
WordsBefore(ws, j) == Cardinality({q \in 1 .. j - 1 : ~ws[q].bold})
\* the next() calls of the frame made before its static pass
TypingNexts ==
    IF obs.typedThisIter
    THEN Len(frame.typed) - Cardinality(Glyphs(frame.typed)) ELSE 0
StaticDone == pc = "poll" /\ obs.iter >= 1

\* C11 as stated (its first half): a typing pass advances the color cycle
\* once for every character it emits.
C11_TypingAdvancesPerGlyph ==
    PassDone => frame.nexts = Cardinality(Glyphs(frame.typed))

\* C11 as amended: a typing pass advances the cycle once for every word of
\* line.split(" "), empty words included; all characters of a word take that
\* one color and the space after it takes none.  A static pass advances it
\* once for every character of every line, spaces included, and continues
\* from where the typing pass of the same iteration stopped.
C11_CycleAdvancesPerWordThenPerChar ==
    /\ PassDone =>
          /\ frame.nexts = Len(frame.typed) - Cardinality(Glyphs(frame.typed))
          /\ \A j \in DOMAIN frame.typed :
                frame.typed[j].nth =
                    IF frame.typed[j].bold
                    THEN WordsBefore(frame.typed, j) + 1 ELSE 0
    /\ StaticDone =>
          /\ Len(frame.static) = TextLength
          /\ \A i \in DOMAIN frame.static :
                frame.static[i].nth = TypingNexts + i
          /\ frame.nexts = TypingNexts + TextLength

C11_Witness ==
    /\ StaticDone
    /\ obs.typedThisIter
    /\ args.lines = <<ABCDE, <<>>, AB>>
    /\ frame.typed[1].nth = 1
    /\ frame.typed[5].nth = 1
    /\ frame.typed[8].nth = 3
    /\ frame.static[1].nth = 4
    /\ frame.nexts = 10

----------------------------------------------------------------------------
(* Properties of the loop's state machine, checked under Spec *)

\* typing is queued: requested, and the bio not typed yet or repeat mode on
Queued == do_type /\ (~typed \/ args.repeat)
IterationEnd == pc = "poll" /\ obs.iter >= 1

\* C12 as stated (its conclusion): in one-shot mode no iteration ends with
\* the typing request still set.
C12_NoRequestLeftAtIterationEnd ==
    ~args.repeat /\ IterationEnd => ~do_type

\* C12 as amended: typing is queued when it is requested and the bio has not
\* been typed or repeat mode is on.  Typing queued at the overlay decision is
\* run in that same iteration and leaves the bio typed; in one-shot mode the
\* request is cleared by the pass and no iteration ends with typing queued.
\* A space key read in one-shot mode after the bio was typed sets the
\* request, which is never served and never cleared.
C12_QueuedTypingRunsAtOnce ==
    /\ pc = "typing" => obs.typedThisIter /\ Queued
    /\ pc = "static" /\ ~obs.typedThisIter => ~Queued
    /\ pc = "static" /\ obs.typedThisIter =>
          typed /\ do_type = args.repeat
    /\ Triggered /\ pc = "static" => typed
    /\ ~args.repeat /\ (pc = "static" \/ IterationEnd) => ~Queued
    /\ ~args.repeat /\ typed /\ do_type /\ InLoop => obs.spaceRead

C12_Witness ==
    /\ ~args.repeat
    /\ ~args.autoplay
    /\ obs.spaceRead
    /\ obs.iter = 2
    /\ pc = "static"
    /\ obs.typedThisIter
    /\ typed
    /\ ~do_type

\* the work of a whole iteration, with or without a typing pass
IterationWork(withTyping) ==
    HeadWork \o (IF withTyping THEN <<"type">> ELSE <<>>) \o TailWork

----------------------------------------------------------------------------
(* Liveness of MatrixColumn, checked under SpecRunning *)

\* what reset() leaves: a head in its range, no time elapsed, a length in
\* its range, a speed sample and a buffer of height + length + 10 characters
Reseeded(c) ==
    /\ c.y \in HeadRange(c.height)
    /\ c.length \in LengthRange(c.height)
    /\ c.speed \in Speeds
    /\ c.since = 0
    /\ c.nchars = c.height + c.length + CharSlack

\* C14: while the loop keeps running every column is reset again and again;
\* a reset happens in a step that moves the head to where head minus trail
\* length exceeds the screen height, and leaves the column re-seeded.
C14_EveryColumnResetsForever ==
    /\ \A k \in 1 .. MaxCols :
          []<>(InLoop /\ (k \in DOMAIN columns => k \in obs.fresh))
    /\ [](\A k \in obs.fresh : Reseeded(columns[k]))
    /\ [][\A k \in obs.fresh' :
             pc = "poll" =>
                 columns[k].y + 1 - columns[k].length > columns[k].height]_vars

C14_Witness ==
    /\ pc = "static"
    /\ obs.iter = 2
    /\ obs.fresh = {1}
    /\ columns[1].height = 3
    /\ columns[1].y = -2
    /\ columns[1].speed = 7

----------------------------------------------------------------------------
(* Placement of the two overlay passes, checked under SpecResize *)

\* the cell of character i of line r when the window size read was sz
PlacedAt(sz, r, i) ==
    [y |-> StartRow(sz.h, args.lines) + r - 1,
     x |-> center_x_for_text(sz.w, args.lines[r]) + i - 1]

Cell(w) == [y |-> w.y, x |-> w.x]
BothPassesDone == StaticDone /\ obs.typedThisIter

\* C15 as stated: in an iteration with a typing pass, the static pass draws
\* character i of every line at the cell at which the typing pass drew it.
C15_SamePlacementInEveryIteration ==
    BothPassesDone =>
        \A r \in DOMAIN args.lines : \A i \in 1 .. Len(args.lines[r]) :
            Cell(frame.static[Offset(r, 0) + i]) =
            Cell(frame.typed[Offset(r, 1) + i])

\* C15 as amended: each pass places character i of line r by the same rule
\* applied to the window size it read itself, the typing pass once when it
\* began and the static pass after the typing pass returned; the typing pass
\* writes the line's own characters, its spaces included, at consecutive
\* columns.  The two cells are equal when the two sizes are.
C15_SameRuleOwnSize ==
    BothPassesDone =>
        \A r \in DOMAIN args.lines : \A i \in 1 .. Len(args.lines[r]) :
            LET t  == frame.typed[Offset(r, 1) + i]
                st == frame.static[Offset(r, 0) + i]
            IN  /\ Cell(t) = PlacedAt(frame.typedAt, r, i)
                /\ Cell(st) = PlacedAt(frame.staticAt, r, i)
                /\ t.ch = args.lines[r][i]
                /\ st.ch = args.lines[r][i]
                /\ frame.typedAt = frame.staticAt => Cell(t) = Cell(st)

C15_Witness ==
    /\ BothPassesDone
    /\ frame.typedAt = frame.staticAt
    /\ frame.staticAt.w = 3
    /\ args.lines = <<A_B>>
    /\ frame.typed[2].ch = " "
    /\ frame.typed[3].ch = " "
    /\ frame.typed[4].x = 3
    /\ frame.static[4].x = 3
    /\ ~frame.static[4].written

----------------------------------------------------------------------------
(* The columns of the rain, checked under SpecRain *)

\* the widest screen the start-up rule is evaluated for
MaxWidth == 100

Distinct(xs) == \A i, j \in DOMAIN xs : i # j => xs[i] # xs[j]
Within(xs, width) == \A i \in DOMAIN xs : 0 <= xs[i] /\ xs[i] < width

\* the screen after a pass: for every cell, the last write that reached it
Painted(ws) ==
    LET hit == {j \in DOMAIN ws : ws[j].written}
        top == {i \in hit : \A q \in hit : q > i => Cell(ws[q]) # Cell(ws[i])}
    IN  { [y |-> ws[j].y, x |-> ws[j].x, ch |-> ws[j].ch,
           bold |-> ws[j].bold] : j \in top }

Reverse(sq) == [i \in DOMAIN sq |-> sq[Len(sq) + 1 - i]]

\* the fallback positions for every width up to MaxWidth
FallbackDistinctWithin ==
    \A W \in 1 .. MaxWidth :
        /\ Fallback(W) # <<>>
        /\ Distinct(Fallback(W))
        /\ Within(Fallback(W), W)

\* C16: the columns created at start-up, sampled or fallback, have pairwise
\* distinct x positions inside [0, width), there is at least one, no two
\* columns ever write the same cell, and drawing the columns in the opposite
\* order paints the same frame.
C16_DistinctColumnsOrderFree ==
    /\ FallbackDistinctWithin
    /\ \A S \in Sampled(term.w) :
          /\ Distinct(ColumnXs(S, term.w))
          /\ Within(ColumnXs(S, term.w), term.w)
    /\ InLoop =>
          /\ columns # <<>>
          /\ Distinct([k \in DOMAIN columns |-> columns[k].x])
          /\ Within([k \in DOMAIN columns |-> columns[k].x], term.w)
    /\ AfterStep =>
          /\ \A i, j \in DOMAIN frame.rain :
                i # j => Cell(frame.rain[i]) # Cell(frame.rain[j])
          /\ Painted(RainWrites(term, Reverse(columns))) = Painted(frame.rain)

C16_Witness ==
    /\ AfterStep
    /\ Len(columns) = 2
    /\ columns[1].x = 0
    /\ columns[2].x = 1
    /\ Len(frame.rain) = 2
    /\ frame.rain[1].ch # frame.rain[2].ch
    /\ Cardinality(Painted(frame.rain)) = 2

----------------------------------------------------------------------------
(* Bounds of a column while the terminal is resized, checked under        *)
(* SpecScreen                                                              *)

\* C17: in every state of every column the head minus the trail length is at
\* most twice the column's height, and no step of the program changes a
\* column's x position or height once it is created, whatever size the
\* terminal is resized to.
C17_TrailBoundFixedPlace ==
    /\ [](\A k \in DOMAIN columns :
             columns[k].y - columns[k].length <= 2 * columns[k].height)
    /\ [][\A k \in DOMAIN columns :
             /\ k \in DOMAIN columns'
             /\ columns'[k].x = columns[k].x
             /\ columns'[k].height = columns[k].height]_vars

C17_Witness ==
    /\ pc = "static"
    /\ Len(columns) = 1
    /\ columns[1].height = 4
    /\ term.h = 3
    /\ columns[1].y - columns[1].length = 2 * columns[1].height
    /\ obs.fresh = {}

====
